---- MODULE Spec2Model ----
(***************************************************************************)
(* Model of native-keyvault's CredentialStore (src/src/index.ts): the      *)
(* facade save/get/delete, the per-OS native backends driven through       *)
(* execSync, and the AES-256-GCM fallback store kept in                    *)
(* ~/.cache/<service>/{key.bin,credentials.json}.                          *)
(***************************************************************************)
EXTENDS Integers, Sequences, FiniteSets, TLC

(* ------------------------------ inputs --------------------------------- *)
\* secrets are strings of "x" and " ", where " " is whitespace for String.trim:
\* the empty secret and one with leading whitespace
Secrets == {<<>>, <<" ", "x">>}
\* "__proto__" is an account name like any other for the caller
Accounts == {"a", "__proto__"}
\* how many values crypto.randomBytes(32) and crypto.randomBytes(12) can give
NumKeys == 2
NumNonces == 2
Keys == 1..NumKeys
Nonces == 1..NumNonces
Platforms == {"darwin", "win32", "linux", "aix"}
\* what the external tool does during one call: works, is not installed,
\* or runs and exits non-zero (permission denied, daemon unreachable)
NativeFaults == {"none", "toolMissing", "invocationError"}
\* what the file system does during one call: works, readFileSync of the
\* mapping throws, writeFileSync of the mapping throws, or chmodSync throws
\* on the files _ensureCache creates
CacheFaults == {"none", "read", "write", "chmod"}

(* --------------------------- JS values --------------------------------- *)
\* null, as returned by get
NotFound == <<"null">>
\* undefined, the value of a call to save or delete
Void == <<"undefined">>

Returned(v) == [kind |-> "return", val |-> v, err |-> ""]
Thrown(e) == [kind |-> "throw", val |-> Void, err |-> e]

IsWhitespace(c) == c = " "

RECURSIVE TrimStart(_)
TrimStart(s) ==
  IF s # <<>> /\ IsWhitespace(Head(s)) THEN TrimStart(Tail(s)) ELSE s

RECURSIVE TrimEnd(_)
TrimEnd(s) ==
  IF s # <<>> /\ IsWhitespace(s[Len(s)]) THEN TrimEnd(SubSeq(s, 1, Len(s) - 1)) ELSE s

\* String.prototype.trim, applied to the tool's output
Trim(s) == TrimEnd(TrimStart(s))

\* property names every plain object inherits from Object.prototype
InheritedProps == {"__proto__", "constructor", "toString", "valueOf", "hasOwnProperty"}

JsUndefined == [type |-> "undefined"]
JsObject == [type |-> "object"]
JsString(b) == [type |-> "string", b64 |-> b]

\* a plain object: own property names in insertion order and their values
EmptyObj == [keys |-> <<>>, val |-> <<>>]

IndexOf(seq, x) ==
  IF \E i \in 1..Len(seq) : seq[i] = x
  THEN CHOOSE i \in 1..Len(seq) : seq[i] = x
  ELSE 0

HasOwn(obj, k) == IndexOf(obj.keys, k) # 0

\* obj[k]: own property, else the prototype chain, else undefined
ObjGet(obj, k) ==
  IF HasOwn(obj, k) THEN obj.val[IndexOf(obj.keys, k)]
  ELSE IF k \in InheritedProps THEN JsObject
  ELSE JsUndefined

\* JSON.parse / CreateDataProperty: always defines an own property
ObjDefine(obj, k, v) ==
  IF HasOwn(obj, k)
  THEN [obj EXCEPT !.val[IndexOf(obj.keys, k)] = v]
  ELSE [keys |-> Append(obj.keys, k), val |-> Append(obj.val, v)]

\* obj[k] = v where v is a string: an own property is overwritten, a new one
\* is appended, but "__proto__" reaches the setter of Object.prototype, which
\* ignores a value that is neither an object nor null
ObjSet(obj, k, v) ==
  IF HasOwn(obj, k) THEN ObjDefine(obj, k, v)
  ELSE IF k = "__proto__" THEN obj
  ELSE ObjDefine(obj, k, v)

SeqRemoveAt(seq, i) ==
  [j \in 1..(Len(seq) - 1) |-> IF j < i THEN seq[j] ELSE seq[j + 1]]

\* delete obj[k]: removes an own property, nothing else
ObjDelete(obj, k) ==
  IF HasOwn(obj, k)
  THEN [keys |-> SeqRemoveAt(obj.keys, IndexOf(obj.keys, k)),
        val |-> SeqRemoveAt(obj.val, IndexOf(obj.keys, k))]
  ELSE obj

\* !v for the values a mapping lookup can give: undefined and the empty
\* string are falsy, an object is truthy
Falsy(v) ==
  \/ v.type = "undefined"
  \/ (v.type = "string" /\ v.b64.len = 0)

\* JSON.stringify(obj, null, 2): the own properties, in order, as text
JSONstringify(obj) ==
  [i \in 1..Len(obj.keys) |-> <<obj.keys[i], obj.val[i].b64>>]

RECURSIVE JSONparseFrom(_, _)
JSONparseFrom(text, obj) ==
  IF text = <<>> THEN obj
  ELSE JSONparseFrom(Tail(text), ObjDefine(obj, Head(text)[1], JsString(Head(text)[2])))

\* JSON.parse(text)
JSONparse(text) == JSONparseFrom(text, EmptyObj)

(* ------------------------------ crypto --------------------------------- *)
\* AES-256-GCM, symbolically: the ciphertext term and its tag
GcmCipher(key, iv, text) == [k |-> key, n |-> iv, pt |-> text]
GcmTag(key, iv, enc) == [k |-> key, n |-> iv, c |-> enc]

\* the bytes of text itself, readable without any key
Utf8(text) == [k |-> 0, n |-> 0, pt |-> text]

\* the sizes _encrypt writes and _decrypt slices by
IvLength == 12
TagLength == 16
\* the tag lengths decipher.setAuthTag accepts for GCM when createDecipheriv
\* was given no authTagLength option
GcmTagLengths == {4, 8, 12, 13, 14, 15, 16}

\* Buffer.concat([iv, tag, enc]).toString('base64'): the three parts and
\* the number of bytes they take
Base64(iv, tag, enc) ==
  [iv |-> iv, tag |-> tag, enc |-> enc, len |-> IvLength + TagLength + Len(enc.pt)]

\* _encrypt that concatenates the text itself where the ciphertext belongs
EncryptLeavesPlaintext(key, iv, text) ==
  LET enc == Utf8(text)
      tag == GcmTag(key, iv, enc)
  IN  Base64(iv, tag, enc)

\* _encrypt(text) with the key read from key.bin and a random iv
Encrypt(key, iv, text) ==
  LET enc == GcmCipher(key, iv, text)
      tag == GcmTag(key, iv, enc)
  IN  Base64(iv, tag, enc)

Min(a, b) == IF a < b THEN a ELSE b
Max(a, b) == IF a > b THEN a ELSE b

\* _decrypt whose final() accepts any tag
DecryptUnverified(key, data) ==
  IF data.type # "string" THEN Thrown("TypeError")
  ELSE Returned(data.b64.enc.pt)

\* _decrypt(data): Buffer.from(data, 'base64') is sliced at 12 and 28, so a
\* buffer cut short gives a short iv, a short tag or a short ciphertext; it
\* throws for a non-string, for an empty iv, for a tag length GCM does not
\* allow, and when the tag bytes given do not verify
Decrypt(key, data) ==
  IF data.type # "string" THEN Thrown("TypeError")
  ELSE LET buf == data.b64
           ivLen == Min(buf.len, IvLength)
           tagLen == Min(Max(buf.len - IvLength, 0), TagLength)
           encLen == Max(buf.len - IvLength - TagLength, 0)
           iv == IF ivLen = IvLength THEN buf.iv ELSE 0
           enc == [buf.enc EXCEPT !.pt = SubSeq(@, 1, Min(encLen, Len(@)))]
       IN  IF ivLen = 0 THEN Thrown("Invalid initialization vector")
           ELSE IF tagLen \notin GcmTagLengths
           THEN Thrown("Invalid authentication tag length")
           ELSE IF buf.tag = GcmTag(key, iv, enc)
           THEN Returned(enc.pt)
           ELSE Thrown("Unsupported state or unable to authenticate data")

(* --------------------------- fallback store ---------------------------- *)
\* the cache directory and its two files
NoKeyFile == [exists |-> FALSE, bytes |-> 0]
NoCacheFile == [exists |-> FALSE, text |-> <<>>]
EmptyFs == [dir |-> FALSE, key |-> NoKeyFile, file |-> NoCacheFile]

\* _ensureCache that writes key.bin without asking whether it exists: the
\* bytes of an existing key.bin are replaced by other ones
EnsureCacheRotatesKey(fs, rnd) ==
  [dir |-> TRUE,
   key |-> [exists |-> TRUE,
            bytes |-> IF fs.key.exists THEN (fs.key.bytes % NumKeys) + 1 ELSE rnd],
   file |-> IF fs.file.exists THEN fs.file
            ELSE [exists |-> TRUE, text |-> JSONstringify(EmptyObj)]]

\* _ensureCache(); rnd is what crypto.randomBytes(32) gives if it is asked
EnsureCache(fs, rnd) ==
  [dir |-> TRUE,
   key |-> IF fs.key.exists THEN fs.key ELSE [exists |-> TRUE, bytes |-> rnd],
   file |-> IF fs.file.exists THEN fs.file
            ELSE [exists |-> TRUE, text |-> JSONstringify(EmptyObj)]]

\* console.warn(`${msg}: ${error}`)
Warning(msg, error) == [msg |-> msg, error |-> error]

\* what _ensureCache warns about: a chmodSync that throws on a file it has
\* just created is caught and reported, and the call goes on
EnsureWarnings(fs, fault) ==
  IF fault # "chmod" THEN <<>>
  ELSE (IF fs.key.exists THEN <<>>
        ELSE <<Warning("Could not set permissions on key file", "EPERM")>>)
       \o (IF fs.file.exists THEN <<>>
           ELSE <<Warning("Could not set permissions on cache file", "EPERM")>>)

\* _readCache()
ReadCache(fs, rnd, fault) ==
  LET fs1 == EnsureCache(fs, rnd)
  IN  IF fault = "read"
      THEN [fs |-> fs1, res |-> Thrown("EIO: read credentials.json"), obj |-> EmptyObj]
      ELSE [fs |-> fs1, res |-> Returned(Void), obj |-> JSONparse(fs1.file.text)]

\* _writeCache(obj)
WriteCache(fs, obj, rnd, fault) ==
  LET fs1 == EnsureCache(fs, rnd)
  IN  IF fault = "write"
      THEN [fs |-> fs1, res |-> Thrown("ENOSPC: write credentials.json")]
      ELSE [fs |-> [fs1 EXCEPT !.file.text = JSONstringify(obj)], res |-> Returned(Void)]

\* _saveFallback that starts from an empty mapping instead of the one read
SaveFallbackAlone(fs, account, password, rnd, iv, fault) ==
  LET r == ReadCache(fs, rnd, fault)
  IN  IF r.res.kind = "throw" THEN [fs |-> r.fs, res |-> r.res]
      ELSE LET cache == ObjSet(EmptyObj, account,
                               JsString(Encrypt(r.fs.key.bytes, iv, password)))
           IN  WriteCache(r.fs, cache, rnd, fault)

\* _saveFallback(account, password)
SaveFallback(fs, account, password, rnd, iv, fault) ==
  LET r == ReadCache(fs, rnd, fault)
  IN  IF r.res.kind = "throw" THEN [fs |-> r.fs, res |-> r.res]
      ELSE LET cache == ObjSet(r.obj, account,
                               JsString(Encrypt(r.fs.key.bytes, iv, password)))
           IN  WriteCache(r.fs, cache, rnd, fault)

\* _getFallback(account)
GetFallback(fs, account, rnd, fault) ==
  LET r == ReadCache(fs, rnd, fault)
  IN  IF r.res.kind = "throw" THEN [fs |-> r.fs, res |-> r.res]
      ELSE IF Falsy(ObjGet(r.obj, account))
      THEN [fs |-> r.fs, res |-> Returned(NotFound)]
      ELSE LET d == Decrypt(r.fs.key.bytes, ObjGet(r.obj, account))
           IN  [fs |-> r.fs,
                res |-> IF d.kind = "throw" THEN Returned(NotFound) ELSE d]

\* _deleteFallback that writes the mapping back without removing the entry
DeleteFallbackKeepsEntry(fs, account, rnd, fault) ==
  LET r == ReadCache(fs, rnd, fault)
  IN  IF r.res.kind = "throw" THEN [fs |-> r.fs, res |-> r.res]
      ELSE WriteCache(r.fs, r.obj, rnd, fault)

\* _deleteFallback that refuses an account the mapping has no entry for
DeleteFallbackInsists(fs, account, rnd, fault) ==
  LET r == ReadCache(fs, rnd, fault)
  IN  IF r.res.kind = "throw" THEN [fs |-> r.fs, res |-> r.res]
      ELSE IF ~HasOwn(r.obj, account)
      THEN [fs |-> r.fs, res |-> Thrown("No such account")]
      ELSE WriteCache(r.fs, ObjDelete(r.obj, account), rnd, fault)

\* _deleteFallback(account)
DeleteFallback(fs, account, rnd, fault) ==
  LET r == ReadCache(fs, rnd, fault)
  IN  IF r.res.kind = "throw" THEN [fs |-> r.fs, res |-> r.res]
      ELSE WriteCache(r.fs, ObjDelete(r.obj, account), rnd, fault)

(* --------------------------- native backend ---------------------------- *)
\* no entry for the account in the OS credential manager
NoEntry == <<"no-entry">>
\* execSync called without an input option
NoInput == <<"no-input">>

\* one execSync call: the command, the secrets interpolated into the
\* command line, and what is piped to the child's stdin
Exec(cmd, cmdlineSecrets, input) ==
  [cmd |-> cmd, cmdline |-> cmdlineSecrets, input |-> input]

ExecFailed == Thrown("Command failed")
SecretToolMissing == Thrown("secret-tool not available")

\* _saveMac
SaveMac(store, account, password, fault) ==
  [execs |-> <<Exec("security add-generic-password", {password}, NoInput)>>,
   res |-> IF fault # "none" THEN ExecFailed ELSE Returned(Void),
   store |-> IF fault # "none" THEN store ELSE [store EXCEPT ![account] = password]]

\* _getMac: every failure of the command is swallowed into null
GetMac(store, account, fault) ==
  [execs |-> <<Exec("security find-generic-password", {}, NoInput)>>,
   res |-> IF fault # "none" \/ store[account] = NoEntry
           THEN Returned(NotFound)
           ELSE Returned(Trim(store[account])),
   store |-> store]

\* _deleteMac
DeleteMac(store, account, fault) ==
  [execs |-> <<Exec("security delete-generic-password", {}, NoInput)>>,
   res |-> IF fault # "none" THEN ExecFailed ELSE Returned(Void),
   store |-> IF fault # "none" THEN store ELSE [store EXCEPT ![account] = NoEntry]]

\* _saveWindows: the secret is part of the script on the pwsh command line
SaveWindows(store, account, password, fault) ==
  [execs |-> <<Exec("pwsh -NoProfile -Command", {password}, NoInput)>>,
   res |-> IF fault # "none" THEN ExecFailed ELSE Returned(Void),
   store |-> IF fault # "none" THEN store ELSE [store EXCEPT ![account] = password]]

\* _getWindows: no file is null without running anything, a failing pwsh is null
GetWindows(store, account, fault) ==
  IF store[account] = NoEntry
  THEN [execs |-> <<>>, res |-> Returned(NotFound), store |-> store]
  ELSE [execs |-> <<Exec("pwsh -NoProfile -Command", {}, NoInput)>>,
        res |-> IF fault # "none" THEN Returned(NotFound)
                ELSE Returned(Trim(store[account])),
        store |-> store]

\* _deleteWindows: unlinks the file itself, no external tool
DeleteWindows(store, account, fault) ==
  [execs |-> <<>>, res |-> Returned(Void),
   store |-> [store EXCEPT ![account] = NoEntry]]

\* _hasSecretTool
HasSecretTool(fault) == fault # "toolMissing"
WhichSecretTool == Exec("command -v secret-tool", {}, NoInput)

\* _saveLinux
SaveLinux(store, account, password, fault) ==
  IF ~HasSecretTool(fault)
  THEN [execs |-> <<WhichSecretTool>>, res |-> SecretToolMissing, store |-> store]
  ELSE [execs |-> <<WhichSecretTool, Exec("secret-tool store", {}, password)>>,
        res |-> IF fault # "none" THEN ExecFailed ELSE Returned(Void),
        store |-> IF fault # "none" THEN store
                  ELSE [store EXCEPT ![account] = password]]

\* _getLinux
GetLinux(store, account, fault) ==
  IF ~HasSecretTool(fault)
  THEN [execs |-> <<WhichSecretTool>>, res |-> SecretToolMissing, store |-> store]
  ELSE [execs |-> <<WhichSecretTool, Exec("secret-tool lookup", {}, NoInput)>>,
        res |-> IF fault # "none" \/ store[account] = NoEntry
                THEN Returned(NotFound)
                ELSE Returned(Trim(store[account])),
        store |-> store]

\* _deleteLinux
DeleteLinux(store, account, fault) ==
  IF ~HasSecretTool(fault)
  THEN [execs |-> <<WhichSecretTool>>, res |-> SecretToolMissing, store |-> store]
  ELSE [execs |-> <<WhichSecretTool, Exec("secret-tool clear", {}, NoInput)>>,
        res |-> IF fault # "none" THEN ExecFailed ELSE Returned(Void),
        store |-> IF fault # "none" THEN store
                  ELSE [store EXCEPT ![account] = NoEntry]]

Unsupported(store) ==
  [execs |-> <<>>, res |-> Thrown("Unsupported platform"), store |-> store]

\* _saveNative
SaveNative(os, store, account, password, fault) ==
  IF os = "darwin" THEN SaveMac(store, account, password, fault)
  ELSE IF os = "win32" THEN SaveWindows(store, account, password, fault)
  ELSE IF os = "linux" THEN SaveLinux(store, account, password, fault)
  ELSE Unsupported(store)

\* _getNative
GetNative(os, store, account, fault) ==
  IF os = "darwin" THEN GetMac(store, account, fault)
  ELSE IF os = "win32" THEN GetWindows(store, account, fault)
  ELSE IF os = "linux" THEN GetLinux(store, account, fault)
  ELSE Unsupported(store)

\* _deleteNative
DeleteNative(os, store, account, fault) ==
  IF os = "darwin" THEN DeleteMac(store, account, fault)
  ELSE IF os = "win32" THEN DeleteWindows(store, account, fault)
  ELSE IF os = "linux" THEN DeleteLinux(store, account, fault)
  ELSE Unsupported(store)

(* ------------------------------- facade -------------------------------- *)
\* an attempt that was not made
NoAttempt == [kind |-> "none", val |-> Void, err |-> ""]

\* the outcome of one facade call: its result, the two stores afterwards,
\* and what it did on the way (attempts in order, warnings, execSync calls)
Outcome(res, store, files, trace, warnings, execs, nat, fb) ==
  [res |-> res, store |-> store, fs |-> files, trace |-> trace,
   warnings |-> warnings, execs |-> execs, nat |-> nat, fb |-> fb]

\* save whose catch block rethrows the native error instead of falling back
SaveCallNoFallback(forced, os, store, files, account, password, nf, cf, rnd, iv) ==
  IF ~forced
  THEN LET n == SaveNative(os, store, account, password, nf)
       IN  Outcome(n.res, n.store, files, <<"native">>, <<>>, n.execs,
                   n.res, NoAttempt)
  ELSE LET f == SaveFallback(files, account, password, rnd, iv, cf)
       IN  Outcome(f.res, store, f.fs, <<"fallback">>, EnsureWarnings(files, cf), <<>>,
                   NoAttempt, f.res)

\* save that falls back without a word
SaveCallSilent(forced, os, store, files, account, password, nf, cf, rnd, iv) ==
  IF ~forced
  THEN LET n == SaveNative(os, store, account, password, nf)
       IN  IF n.res.kind = "return"
           THEN Outcome(n.res, n.store, files, <<"native">>, <<>>, n.execs,
                        n.res, NoAttempt)
           ELSE LET f == SaveFallback(files, account, password, rnd, iv, cf)
                IN  Outcome(f.res, n.store, f.fs, <<"native", "fallback">>,
                            EnsureWarnings(files, cf), n.execs, n.res, f.res)
  ELSE LET f == SaveFallback(files, account, password, rnd, iv, cf)
       IN  Outcome(f.res, store, f.fs, <<"fallback">>, EnsureWarnings(files, cf), <<>>,
                   NoAttempt, f.res)

\* CredentialStore.save
SaveCall(forced, os, store, files, account, password, nf, cf, rnd, iv) ==
  IF ~forced
  THEN LET n == SaveNative(os, store, account, password, nf)
       IN  IF n.res.kind = "return"
           THEN Outcome(n.res, n.store, files, <<"native">>, <<>>, n.execs,
                        n.res, NoAttempt)
           ELSE LET f == SaveFallback(files, account, password, rnd, iv, cf)
                IN  Outcome(f.res, n.store, f.fs, <<"native", "warn", "fallback">>,
                            <<Warning("Native credential storage failed, using fallback",
                                      n.res.err)>> \o EnsureWarnings(files, cf),
                            n.execs, n.res, f.res)
  ELSE LET f == SaveFallback(files, account, password, rnd, iv, cf)
       IN  Outcome(f.res, store, f.fs, <<"fallback">>, EnsureWarnings(files, cf), <<>>,
                   NoAttempt, f.res)

\* get that tries the native backend first whatever this.useFallback says
GetCallNativeAnyway(forced, os, store, files, account, nf, cf, rnd) ==
  LET n == GetNative(os, store, account, nf)
  IN  IF n.res.kind = "return"
      THEN Outcome(n.res, n.store, files, <<"native">>, <<>>, n.execs,
                   n.res, NoAttempt)
      ELSE LET f == GetFallback(files, account, rnd, cf)
           IN  Outcome(f.res, n.store, f.fs, <<"native", "warn", "fallback">>,
                       <<Warning("Native credential retrieval failed, trying fallback",
                                 n.res.err)>> \o EnsureWarnings(files, cf),
                       n.execs, n.res, f.res)

\* CredentialStore.get
GetCall(forced, os, store, files, account, nf, cf, rnd) ==
  IF ~forced
  THEN LET n == GetNative(os, store, account, nf)
       IN  IF n.res.kind = "return"
           THEN Outcome(n.res, n.store, files, <<"native">>, <<>>, n.execs,
                        n.res, NoAttempt)
           ELSE LET f == GetFallback(files, account, rnd, cf)
                IN  Outcome(f.res, n.store, f.fs, <<"native", "warn", "fallback">>,
                            <<Warning("Native credential retrieval failed, trying fallback",
                                      n.res.err)>> \o EnsureWarnings(files, cf),
                            n.execs, n.res, f.res)
  ELSE LET f == GetFallback(files, account, rnd, cf)
       IN  Outcome(IF f.res.kind = "throw" THEN Returned(NotFound) ELSE f.res,
                   store, f.fs, <<"fallback">>, EnsureWarnings(files, cf), <<>>,
                   NoAttempt, f.res)

\* delete whose forced branch throws a new error in place of the caught one
DeleteCallWrapsError(forced, os, store, files, account, nf, cf, rnd) ==
  IF ~forced
  THEN LET n == DeleteNative(os, store, account, nf)
       IN  IF n.res.kind = "return"
           THEN Outcome(n.res, n.store, files, <<"native">>, <<>>, n.execs,
                        n.res, NoAttempt)
           ELSE LET f == DeleteFallback(files, account, rnd, cf)
                IN  Outcome(f.res, n.store, f.fs, <<"native", "warn", "fallback">>,
                            <<Warning("Native credential deletion failed, trying fallback",
                                      n.res.err)>> \o EnsureWarnings(files, cf),
                            n.execs, n.res, f.res)
  ELSE LET f == DeleteFallback(files, account, rnd, cf)
       IN  Outcome(IF f.res.kind = "throw" THEN Thrown("Fallback storage failed")
                   ELSE f.res,
                   store, f.fs, <<"fallback">>, EnsureWarnings(files, cf), <<>>,
                   NoAttempt, f.res)

\* delete that stays with the fallback once the cache directory exists
DeleteCallSticky(forced, os, store, files, account, nf, cf, rnd) ==
  IF ~forced /\ ~files.dir
  THEN LET n == DeleteNative(os, store, account, nf)
       IN  IF n.res.kind = "return"
           THEN Outcome(n.res, n.store, files, <<"native">>, <<>>, n.execs,
                        n.res, NoAttempt)
           ELSE LET f == DeleteFallback(files, account, rnd, cf)
                IN  Outcome(f.res, n.store, f.fs, <<"native", "warn", "fallback">>,
                            <<Warning("Native credential deletion failed, trying fallback",
                                      n.res.err)>> \o EnsureWarnings(files, cf),
                            n.execs, n.res, f.res)
  ELSE LET f == DeleteFallback(files, account, rnd, cf)
       IN  Outcome(f.res, store, f.fs, <<"fallback">>, EnsureWarnings(files, cf), <<>>,
                   NoAttempt, f.res)

\* CredentialStore.delete
DeleteCall(forced, os, store, files, account, nf, cf, rnd) ==
  IF ~forced
  THEN LET n == DeleteNative(os, store, account, nf)
       IN  IF n.res.kind = "return"
           THEN Outcome(n.res, n.store, files, <<"native">>, <<>>, n.execs,
                        n.res, NoAttempt)
           ELSE LET f == DeleteFallback(files, account, rnd, cf)
                IN  Outcome(f.res, n.store, f.fs, <<"native", "warn", "fallback">>,
                            <<Warning("Native credential deletion failed, trying fallback",
                                      n.res.err)>> \o EnsureWarnings(files, cf),
                            n.execs, n.res, f.res)
  ELSE LET f == DeleteFallback(files, account, rnd, cf)
       IN  Outcome(f.res, store, f.fs, <<"fallback">>, EnsureWarnings(files, cf), <<>>,
                   NoAttempt, f.res)

(* ------------------------------- state --------------------------------- *)
VARIABLES
  useFallback,  \* this.useFallback, set by the constructor
  platform,     \* process.platform
  keychain,     \* the OS credential manager: account -> secret or NoEntry
  fs,           \* cacheDir, key.bin and credentials.json
  last,         \* the call that returned last, with its outcome
  prev,         \* the call before it, in short (kept for forced-fallback stores)
  latest,       \* the secret of the latest completed save of Watched, NoEntry
                \* after a completed delete of it or when it was never saved
  spent,        \* the values crypto.randomBytes(32) has given so far
  torn,         \* what credentials.json holds besides a complete mapping
  procs         \* the fallback operation each process is in the middle of

vars == <<useFallback, platform, keychain, fs, last, prev, latest, spent, torn, procs>>

\* the account whose latest completed save or delete is remembered
Watched == "a"

NoSecret == <<"no-secret">>

NoCall ==
  [op |-> "new", account |-> "", secret |-> NoSecret, nf |-> "none", cf |-> "none",
   res |-> Returned(Void), trace |-> <<>>, warnings |-> <<>>, execs |-> <<>>,
   nat |-> NoAttempt, fb |-> NoAttempt]

Call(op, account, secret, nf, cf, o) ==
  [op |-> op, account |-> account, secret |-> secret, nf |-> nf, cf |-> cf,
   res |-> o.res, trace |-> o.trace, warnings |-> o.warnings, execs |-> o.execs,
   nat |-> o.nat, fb |-> o.fb]

NoSummary ==
  [op |-> "new", account |-> "", secret |-> NoSecret, kind |-> "return",
   over |-> NoSecret]

\* what is kept of a call once the next one has returned; over is the secret
\* a completed save or delete replaced when the call just before it was a
\* completed save of the same account
Summary(c, before) ==
  [op |-> c.op, account |-> c.account, secret |-> c.secret, kind |-> c.res.kind,
   over |-> IF /\ c.op \in {"save", "delete"} /\ c.res.kind = "return"
               /\ before.op = "save" /\ before.kind = "return"
               /\ before.account = c.account
            THEN before.secret ELSE NoSecret]

\* credentials.json as bytes: empty is a file of no bytes at all (not even
\* "{}"), extra the number of bytes left behind the text of the mapping, by
\* the process whose writeFileSync wrote last (0: none has) and written the
\* text it wrote
Intact == [empty |-> FALSE, extra |-> 0, by |-> 0, written |-> <<>>]
\* the file holds the text of one mapping and nothing else
Whole(t) == ~t.empty /\ t.extra = 0

\* the processes that share the cache directory, and one that is between calls
Procs == {1, 2}
Idle == [pc |-> "idle", data |-> <<>>, res |-> Returned(Void)]

\* new CredentialStore(service, options) on a machine with nothing stored
Init ==
  /\ useFallback \in BOOLEAN
  /\ platform \in Platforms
  /\ keychain = [a \in Accounts |-> NoEntry]
  /\ fs = EmptyFs
  /\ last = NoCall
  /\ prev = NoSummary
  /\ latest = NoEntry
  /\ spent = {}
  /\ torn = Intact
  /\ procs = [p \in Procs |-> Idle]

\* The faults and random values a call can meet.  A tool that is never run
\* cannot fail, a file that is never touched cannot fail, randomBytes(32) is
\* only called when key.bin is missing, and never gives the same 32 bytes
\* twice; randomBytes(12) is only called by _encrypt.
NativeFaultsOf(forced) == IF forced THEN {"none"} ELSE NativeFaults
KeyDraws(files) == IF files.key.exists THEN {files.key.bytes} ELSE Keys \ spent
Drawn(files) == IF files.key.exists THEN spent \cup {files.key.bytes} ELSE spent
Ran(o, what) == \E i \in DOMAIN o.trace : o.trace[i] = what
Met(o, nf, cf, iv) ==
  /\ o.execs = <<>> => nf = "none"
  /\ ~Ran(o, "fallback") => cf = "none"
  /\ (~Ran(o, "fallback") \/ cf = "read") => iv = 1
  /\ cf = "chmod" => EnsureWarnings(fs, cf) # <<>>

Commit(op, account, secret, nf, cf, iv, o) ==
  /\ Met(o, nf, cf, iv)
  /\ keychain' = o.store
  /\ fs' = o.fs
  /\ last' = Call(op, account, secret, nf, cf, o)
  /\ prev' = IF useFallback THEN Summary(last, prev) ELSE prev
  /\ latest' = IF account = Watched /\ o.res.kind = "return" /\ op # "get"
               THEN (IF op = "save" THEN secret ELSE NoEntry)
               ELSE latest
  /\ spent' = Drawn(o.fs)
  /\ UNCHANGED <<useFallback, platform, torn, procs>>

Save(account, password) ==
  \E nf \in NativeFaultsOf(useFallback), cf \in CacheFaults,
     rnd \in KeyDraws(fs), iv \in Nonces :
    Commit("save", account, password, nf, cf, iv,
           SaveCall(useFallback, platform, keychain, fs, account, password,
                    nf, cf, rnd, iv))

Get(account) ==
  \E nf \in NativeFaultsOf(useFallback), cf \in CacheFaults \ {"write"},
     rnd \in KeyDraws(fs) :
    Commit("get", account, NoSecret, nf, cf, 1,
           GetCall(useFallback, platform, keychain, fs, account, nf, cf, rnd))

Delete(account) ==
  \E nf \in NativeFaultsOf(useFallback), cf \in CacheFaults, rnd \in KeyDraws(fs) :
    Commit("delete", account, NoSecret, nf, cf, 1,
           DeleteCall(useFallback, platform, keychain, fs, account, nf, cf, rnd))

Next ==
  \/ \E a \in Accounts, s \in Secrets : Save(a, s)
  \/ \E a \in Accounts : Get(a)
  \/ \E a \in Accounts : Delete(a)

Spec == Init /\ [][Next]_vars

\* stores constructed with { fallback: true }
InitForced == Init /\ useFallback = TRUE
SpecForced == InitForced /\ [][Next]_vars

\* stores constructed without the option
InitNative == Init /\ useFallback = FALSE
SpecNative == InitNative /\ [][Next]_vars

\* the fallback store with two ordinary accounts, on a platform that has no
\* native backend, so that every call falls back
StoreAccounts == {"a", "b"}
InitStore == InitNative /\ platform = "aix"
NextStore ==
  \/ \E a \in StoreAccounts, s \in Secrets : Save(a, s)
  \/ \E a \in StoreAccounts : Get(a)
  \/ \E a \in StoreAccounts : Delete(a)
SpecStore == InitStore /\ [][NextStore]_vars

\* something other than a call of the store: what happened, and to which account
Event(what, account) == [NoCall EXCEPT !.op = what, !.account = account]

\* the entries an account has in credentials.json
EntriesIn(files, account) ==
  {i \in DOMAIN files.file.text : files.file.text[i][1] = account}

\* a stored value with one byte changed, in the iv, the tag or the ciphertext
ByteChanges == {"iv", "tag", "enc"}
Changed(b, part) ==
  IF part = "iv" THEN [b EXCEPT !.iv = 0]
  ELSE IF part = "tag" THEN [b EXCEPT !.tag = GcmTag(0, b.iv, b.enc)]
  ELSE [b EXCEPT !.enc = GcmCipher(0, b.iv, b.enc.pt)]

\* the lengths a stored value is cut to: nothing left, inside the iv, the iv
\* alone, inside the tag (4 and 7 bytes of it left), the ciphertext gone
CutLengths == {0, 11, 12, 16, 19, 28}
Cut(b, n) == [b EXCEPT !.len = n]

\* somebody edits credentials.json and changes one byte of the value of account
ChangeByte(account, part) ==
  /\ EntriesIn(fs, account) # {}
  /\ LET i == CHOOSE i \in EntriesIn(fs, account) : TRUE
         b == fs.file.text[i][2]
     IN  /\ b = Encrypt(b.tag.k, b.iv, b.enc.pt)
         /\ part = "enc" => b.enc.pt # <<>>
         /\ fs' = [fs EXCEPT !.file.text[i] = <<account, Changed(b, part)>>]
  /\ last' = Event("change byte", account)
  /\ prev' = Summary(last, prev)
  /\ UNCHANGED <<useFallback, platform, keychain, latest, spent, torn, procs>>

\* somebody edits credentials.json and cuts the value of account short
CutShort(account, n) ==
  /\ EntriesIn(fs, account) # {}
  /\ LET i == CHOOSE i \in EntriesIn(fs, account) : TRUE
         b == fs.file.text[i][2]
     IN  /\ b = Encrypt(b.tag.k, b.iv, b.enc.pt)
         /\ n < b.len
         /\ fs' = [fs EXCEPT !.file.text[i] = <<account, Cut(b, n)>>]
  /\ last' = Event("cut short", account)
  /\ prev' = Summary(last, prev)
  /\ UNCHANGED <<useFallback, platform, keychain, latest, spent, torn, procs>>

\* somebody removes key.bin (while randomBytes has values left to give)
DeleteKeyFile ==
  /\ fs.key.exists
  /\ spent # Keys
  /\ fs' = [fs EXCEPT !.key = NoKeyFile]
  /\ last' = Event("unlink key.bin", "")
  /\ prev' = Summary(last, prev)
  /\ UNCHANGED <<useFallback, platform, keychain, latest, spent, torn, procs>>

\* a store with fallback forced whose files are changed behind its back
InitTamper == InitForced /\ platform = "linux"
NextTamper ==
  \/ Next
  \/ \E a \in Accounts, part \in ByteChanges : ChangeByte(a, part)
  \/ \E a \in Accounts, n \in CutLengths : CutShort(a, n)
  \/ DeleteKeyFile
SpecTamper == InitTamper /\ [][NextTamper]_vars

\* what a get of account on the fallback store with these files returns
Lookup(files, account) ==
  GetFallback(files, account, CHOOSE k \in KeyDraws(files) : TRUE, "none").res

\* the number of bytes of the base64 text of n bytes, and of the text
\* JSON.stringify(obj, null, 2) gives: "{}", or one line per entry
Base64Size(n) == 4 * ((n + 2) \div 3)
RECURSIVE JsonSize(_)
JsonSize(text) ==
  IF text = <<>> THEN 2
  ELSE Len(Head(text)[1]) + Base64Size(Head(text)[2].len) + 10 + JsonSize(Tail(text))

\* the bytes credentials.json has now
FileSize == IF torn.empty THEN 0 ELSE JsonSize(fs.file.text) + torn.extra

\* Process p starts a fallback save or delete: _readCache, then the change
\* of its own copy of the mapping.  JSON.parse throws on a file that is not
\* the text of one mapping, and the call ends there.  The iv is the first
\* nonce: which one _encrypt draws plays no part in the file operations.
Begin(p, op, account, password) ==
  /\ procs[p].pc = "idle"
  /\ \E rnd \in KeyDraws(fs) :
       LET fs1 == EnsureCache(fs, rnd)
           obj == JSONparse(fs1.file.text)
           cache == IF op = "save"
                    THEN ObjSet(obj, account,
                                JsString(Encrypt(fs1.key.bytes, 1, password)))
                    ELSE ObjDelete(obj, account)
       IN  /\ fs' = fs1
           /\ spent' = Drawn(fs1)
           /\ procs' = [procs EXCEPT ![p] =
                IF Whole(torn)
                THEN [pc |-> "read", data |-> JSONstringify(cache),
                      res |-> Returned(Void)]
                ELSE [Idle EXCEPT !.res = Thrown("SyntaxError")]]
  /\ UNCHANGED <<useFallback, platform, keychain, last, prev, latest, torn>>

\* Process p enters _ensureCache on a directory without key.bin: it makes
\* the directory and gets false from existsSync(this.keyFile)
FindNoKey(p) ==
  /\ procs[p].pc = "idle"
  /\ ~fs.key.exists
  /\ fs' = [fs EXCEPT !.dir = TRUE]
  /\ procs' = [procs EXCEPT ![p].pc = "nokey"]
  /\ UNCHANGED <<useFallback, platform, keychain, last, prev, latest, spent, torn>>

\* ... and goes on from there: writeFileSync(this.keyFile, randomBytes(32))
\* over whatever key.bin holds by now, then the rest of _ensureCache,
\* _readCache and the change of its own copy of the mapping, as in Begin
BeginWithNewKey(p, op, account, password) ==
  /\ procs[p].pc = "nokey"
  /\ \E rnd \in Keys \ spent :
       LET fs1 == EnsureCache([fs EXCEPT !.key = NoKeyFile], rnd)
           obj == JSONparse(fs1.file.text)
           cache == IF op = "save"
                    THEN ObjSet(obj, account,
                                JsString(Encrypt(fs1.key.bytes, 1, password)))
                    ELSE ObjDelete(obj, account)
       IN  /\ fs' = fs1
           /\ spent' = Drawn(fs1)
           /\ procs' = [procs EXCEPT ![p] =
                IF Whole(torn)
                THEN [pc |-> "read", data |-> JSONstringify(cache),
                      res |-> Returned(Void)]
                ELSE [Idle EXCEPT !.res = Thrown("SyntaxError")]]
  /\ UNCHANGED <<useFallback, platform, keychain, last, prev, latest, torn>>

\* writeFileSync(cacheFile, ...) opens the file for writing, which truncates it
Open(p) ==
  /\ procs[p].pc = "read"
  /\ fs' = [fs EXCEPT !.file.text = <<>>]
  /\ torn' = [torn EXCEPT !.empty = TRUE, !.extra = 0]
  /\ procs' = [procs EXCEPT ![p].pc = "opened"]
  /\ UNCHANGED <<useFallback, platform, keychain, last, prev, latest, spent>>

\* ... and then writes the text from the start of the file: bytes another
\* process has written further on in the meantime stay where they are
Write(p) ==
  /\ procs[p].pc = "opened"
  /\ fs' = [fs EXCEPT !.file.text = procs[p].data]
  /\ torn' = [empty |-> FALSE,
              extra |-> Max(FileSize - JsonSize(procs[p].data), 0),
              by |-> p, written |-> procs[p].data]
  /\ procs' = [procs EXCEPT ![p] = Idle]
  /\ UNCHANGED <<useFallback, platform, keychain, last, prev, latest, spent>>

\* process p is killed in the middle of its call
Crash(p) ==
  /\ procs[p].pc \in {"read", "opened"}
  /\ procs' = [procs EXCEPT ![p] = [Idle EXCEPT !.pc = "crashed"]]
  /\ UNCHANGED <<useFallback, platform, keychain, fs, last, prev, latest, spent, torn>>

\* process p runs _getFallback(account)
Look(p, account) ==
  /\ procs[p].pc = "idle"
  /\ fs.file.exists
  /\ procs' = [procs EXCEPT ![p] =
       [Idle EXCEPT !.res = IF Whole(torn) THEN Lookup(fs, account)
                            ELSE Thrown("SyntaxError")]]
  /\ UNCHANGED <<useFallback, platform, keychain, fs, last, prev, latest, spent, torn>>

\* two processes with fallback forced on one cache directory, step by step
InitProc == InitForced /\ platform = "linux"
NextProc ==
  \E p \in Procs :
    \/ \E a \in StoreAccounts, s \in Secrets : Begin(p, "save", a, s)
    \/ \E a \in StoreAccounts : Begin(p, "delete", a, <<>>)
    \/ FindNoKey(p)
    \/ \E a \in StoreAccounts, s \in Secrets : BeginWithNewKey(p, "save", a, s)
    \/ \E a \in StoreAccounts : BeginWithNewKey(p, "delete", a, <<>>)
    \/ Open(p)
    \/ Write(p)
    \/ Crash(p)
    \/ \E a \in StoreAccounts : Look(p, a)
SpecProc == InitProc /\ [][NextProc]_vars

\* Several stores on Windows, each with its own service name.  A name is the
\* sequence of its parts; a service or an account may hold a hyphen.
WinServices == {<<"s">>, <<"s", "-", "t">>}
WinAccounts == {<<"u">>, <<"t", "-", "u">>}
WinPairs == WinServices \X WinAccounts

\* _getFilePath(account) of the store of service: the file name under
\* %APPDATA%\keyvault
GetFilePath(service, account) == service \o <<"-">> \o account \o <<".txt">>
WinFiles == {GetFilePath(pr[1], pr[2]) : pr \in WinPairs}

\* what _getWindows of the store of pair[1] returns for the account pair[2]
WinRead(files, pair) == GetWindows(files, GetFilePath(pair[1], pair[2]), "none").res

\* one call of the Windows backend of the store of service, as the last call
WinCall(op, service, account, secret, fault, n) ==
  /\ n.execs = <<>> => fault = "none"
  /\ keychain' = n.store
  /\ last' = Call(op, <<service, account>>, secret, fault, "none",
                  Outcome(n.res, n.store, fs, <<"native">>, <<>>, n.execs,
                          n.res, NoAttempt))
  /\ UNCHANGED <<useFallback, platform, fs, prev, latest, spent, torn, procs>>

WinSave(service, account, password) ==
  \E fault \in {"none", "invocationError"} :
    WinCall("save", service, account, password, fault,
            SaveWindows(keychain, GetFilePath(service, account), password, fault))

WinGet(service, account) ==
  \E fault \in {"none", "invocationError"} :
    WinCall("get", service, account, NoSecret, fault,
            GetWindows(keychain, GetFilePath(service, account), fault))

WinDelete(service, account) ==
  WinCall("delete", service, account, NoSecret, "none",
          DeleteWindows(keychain, GetFilePath(service, account), "none"))

\* %APPDATA%\keyvault starts empty
InitWin ==
  /\ useFallback = FALSE
  /\ platform = "win32"
  /\ keychain = [f \in WinFiles |-> NoEntry]
  /\ fs = EmptyFs
  /\ last = NoCall
  /\ prev = NoSummary
  /\ latest = NoEntry
  /\ spent = {}
  /\ torn = Intact
  /\ procs = [p \in Procs |-> Idle]
NextWin ==
  \E pr \in WinPairs :
    \/ \E s \in Secrets : WinSave(pr[1], pr[2], s)
    \/ WinGet(pr[1], pr[2])
    \/ WinDelete(pr[1], pr[2])
SpecWin == InitWin /\ [][NextWin]_vars

\* one account only, on every platform, with and without forced fallback
NextWatched ==
  \/ \E s \in Secrets : Save(Watched, s)
  \/ Get(Watched)
  \/ Delete(Watched)
SpecWatched == Init /\ [][NextWatched]_vars

(* ------------------------------- claims -------------------------------- *)
\* the entries credentials.json holds for an account
Entries(account) == {i \in DOMAIN fs.file.text : fs.file.text[i][1] = account}

\* last is a get that directly follows a completed call op on the same account
GetAfter(op) ==
  /\ last.op = "get"
  /\ prev.op = op /\ prev.kind = "return" /\ prev.account = last.account

\* C1: on a store with fallback forced, a get directly after a completed
\* save(account, secret), the file system working, returns exactly secret,
\* for every account and every secret, the empty one included.
C1_GetAfterSaveReturnsSecret ==
  (useFallback /\ GetAfter("save") /\ last.cf = "none")
    => last.res = Returned(prev.secret)

\* C2: get never raises past the facade, whatever fails underneath.
C2_GetNeverRaises ==
  last.op = "get" => last.res.kind = "return"

\* C3: without forced fallback, when save fell back because the native
\* backend failed and stored the secret in the fallback store, and the native
\* backend fails again on the get of that account that follows, the get falls
\* back too and returns the secret.
C3_GetFallsBackAfterFallbackSave ==
  [][(/\ ~useFallback
      /\ last.op = "save" /\ last.nat.kind = "throw" /\ last.fb.kind = "return"
      /\ Entries(last.account) # {}
      /\ last'.op = "get" /\ last'.account = last.account
      /\ last'.nf # "none" /\ last'.cf = "none")
     => (Ran(last', "fallback") /\ last'.res = Returned(last.secret))]_vars

\* C4: without forced fallback, whichever calls the native backend fails on,
\* a get never returns from the fallback store a secret other than the one of
\* the latest completed save of the account, and a get returns NotFound when
\* a completed delete came after that save (or nothing was ever saved).
C4_GetReturnsLatestSave ==
  (~useFallback /\ last.op = "get" /\ last.account = Watched
     /\ last.res.kind = "return")
    => /\ (Ran(last, "fallback") /\ last.res.val # NotFound)
            => last.res.val = latest
       /\ latest = NoEntry => last.res.val = NotFound

\* C5: on a store with fallback forced, a get directly after a completed
\* delete of the account returns NotFound, whatever was saved before.
C5_GetAfterDeleteNotFound ==
  (useFallback /\ GetAfter("delete")) => last.res = Returned(NotFound)

\* a secret was saved, deleted, and the get after that found nothing
C5_Witness ==
  /\ useFallback /\ GetAfter("delete") /\ last.account = Watched
  /\ prev.over \in Secrets /\ last.cf = "none"
  /\ last.res = Returned(NotFound)

\* C6: on a store with fallback forced, after save(account, s1) directly
\* followed by save(account, s2) the mapping holds exactly one entry for the
\* account, and a get that follows returns s2.
C6_SecondSaveOverwrites ==
  /\ (useFallback /\ last.op = "save" /\ last.res.kind = "return"
        /\ prev.op = "save" /\ prev.kind = "return"
        /\ prev.account = last.account)
       => Cardinality(Entries(last.account)) = 1
  /\ (useFallback /\ GetAfter("save") /\ prev.over \in Secrets /\ last.cf = "none")
       => /\ last.res = Returned(prev.secret)
          /\ Cardinality(Entries(last.account)) = 1

\* how often a call made an attempt of the given kind
Attempts(c, what) == Cardinality({i \in DOMAIN c.trace : c.trace[i] = what})

\* C7: without forced fallback, when the native attempt of save or delete
\* raises, exactly one fallback attempt is made and its outcome is the result
\* of the call: a normal return when it succeeds, its own exception when it
\* fails; the call raises only when both attempts raised.
C7_FallbackOutcomeIsFinal ==
  (~useFallback /\ last.op \in {"save", "delete"})
    => /\ last.nat.kind = "throw"
            => /\ Attempts(last, "fallback") = 1
               /\ last.fb.kind \in {"return", "throw"}
               /\ last.res = last.fb
       /\ last.res.kind = "throw"
            => (last.nat.kind = "throw" /\ last.fb.kind = "throw")

\* the native save raised, the fallback save raised too, and the caller got
\* the fallback's exception
C7_Witness ==
  /\ ~useFallback /\ last.op = "save"
  /\ last.nat.kind = "throw" /\ last.fb.kind = "throw"
  /\ last.res = Thrown("ENOSPC: write credentials.json")
  /\ last.res.err # last.nat.err

\* C8 as stated: with fallback forced, a failure of the cache store during
\* save, get or delete reaches the caller as the exception it was.
C8_ForcedFailurePropagates ==
  (useFallback /\ last.fb.kind = "throw") => last.res = last.fb

\* C8, amended: with fallback forced, a failure of the cache store during save
\* or delete reaches the caller as the exception it was; during get it is
\* swallowed and the call returns NotFound.
C8_ForcedFailurePropagatesOrNotFound ==
  (useFallback /\ last.fb.kind = "throw")
    => IF last.op = "get" THEN last.res = Returned(NotFound)
       ELSE last.res = last.fb

\* a forced-fallback delete that met a failing write and raised that failure
C8_Witness ==
  /\ useFallback /\ last.op = "delete" /\ last.cf = "write"
  /\ last.res = Thrown("ENOSPC: write credentials.json")

\* C9: with fallback forced, no call runs the native backend: no native
\* attempt, no execSync, and the OS credential manager stays as it was.
C9_ForcedNeverTouchesNative ==
  useFallback
    => /\ last.nat = NoAttempt
       /\ Attempts(last, "native") = 0
       /\ last.execs = <<>>
       /\ keychain = [a \in Accounts |-> NoEntry]

\* a forced-fallback get whose cache read failed, and still nothing native ran
C9_Witness ==
  /\ useFallback /\ last.op = "get" /\ last.fb.kind = "throw"
  /\ last.execs = <<>> /\ Attempts(last, "native") = 0

\* C10: on every OS, the native save never puts the secret on the command
\* line of the process it runs.
C10_SecretNotOnCommandLine ==
  (last.op = "save" /\ Attempts(last, "native") = 1 /\ last.secret # <<>>)
    => \A i \in DOMAIN last.execs : last.secret \notin last.execs[i].cmdline

\* the values credentials.json holds, one per entry
StoredBlobs == {fs.file.text[i][2] : i \in DOMAIN fs.file.text}

\* C12: in every reachable state every value in credentials.json is an
\* encrypted blob: nonce, then the tag of the ciphertext, then the ciphertext
\* of a secret under the key of key.bin and that nonce; none holds the bytes
\* of the secret itself.
C12_StoredValuesAreCiphertext ==
  \A b \in StoredBlobs :
    /\ b.len = IvLength + TagLength + Len(b.enc.pt)
    /\ b.iv \in Nonces
    /\ b.enc = GcmCipher(fs.key.bytes, b.iv, b.enc.pt)
    /\ b.tag = GcmTag(fs.key.bytes, b.iv, b.enc)
    /\ b.enc # Utf8(b.enc.pt)

\* a non-empty secret was saved and its blob is in the file
C12_Witness ==
  /\ last.op = "save" /\ last.res.kind = "return" /\ last.secret # <<>>
  /\ \E b \in StoredBlobs : b.enc.pt = last.secret

\* the warnings of call c that report a failure of the native backend
NativeFailureMessages ==
  {"Native credential storage failed, using fallback",
   "Native credential retrieval failed, trying fallback",
   "Native credential deletion failed, trying fallback"}
NativeFailureWarnings(c) ==
  {i \in DOMAIN c.warnings : c.warnings[i].msg \in NativeFailureMessages}
\* where in its trace call c did what
Position(c, what) == CHOOSE i \in DOMAIN c.trace : c.trace[i] = what

\* C13: a call that goes from the native backend to the fallback emits
\* exactly one warning that carries the native error, after the native
\* attempt and before the fallback attempt; a call that does not fall back
\* (native success, or fallback forced) emits no such warning.
C13_OneWarningPerFallback ==
  IF Ran(last, "native") /\ Ran(last, "fallback")
  THEN /\ NativeFailureWarnings(last) = {1}
       /\ last.warnings[1].error = last.nat.err
       /\ last.nat.kind = "throw"
       /\ Attempts(last, "warn") = 1
       /\ Position(last, "native") < Position(last, "warn")
       /\ Position(last, "warn") < Position(last, "fallback")
  ELSE /\ NativeFailureWarnings(last) = {}
       /\ ~Ran(last, "warn")

\* a save fell back, and the fallback itself warned about file permissions
C13_Witness ==
  /\ last.op = "save" /\ Ran(last, "native") /\ Ran(last, "fallback")
  /\ Len(last.warnings) > 1

\* C16: on a store without forced fallback every call attempts the native
\* backend first and exactly once, whatever earlier calls did and left
\* behind, and makes at most one fallback attempt.
C16_NativeFirstEveryCall ==
  (~useFallback /\ last.op # "new")
    => /\ last.trace[1] = "native"
       /\ Attempts(last, "native") = 1
       /\ last.nat # NoAttempt
       /\ Attempts(last, "fallback") <= 1

\* an earlier call fell back (the cache directory exists, and this call did
\* not make it) and this delete went to the native backend all the same
C16_Witness ==
  /\ ~useFallback /\ last.op = "delete" /\ fs.dir
  /\ last.trace = <<"native">>

\* C17: on every OS the native get returns NotFound only when the tool
\* reported no match; a tool that could not be run or that failed makes the
\* native get raise, so that the facade falls back.
C17_NativeGetRaisesOnToolFailure ==
  (~useFallback /\ last.op = "get" /\ last.nat.kind = "return"
     /\ last.nat.val = NotFound)
    => (last.nf = "none" /\ keychain[last.account] = NoEntry)

\* C18: once key.bin exists no save, get or delete changes it, and
\* _ensureCache is idempotent: with the directory and both files present it
\* changes nothing, and running it twice gives what running it once gives.
C18_KeyFileStable ==
  [][/\ fs.key.exists => fs'.key = fs.key
     /\ \A r1 \in Keys, r2 \in Keys :
          /\ EnsureCache(EnsureCache(fs, r1), r2) = EnsureCache(fs, r1)
          /\ (fs.dir /\ fs.key.exists /\ fs.file.exists) => EnsureCache(fs, r1) = fs
          /\ EnsureCache(EnsureCache(fs', r1), r2) = EnsureCache(fs', r1)]_vars

\* a save completed on a store whose key.bin an earlier save had made
C18_Witness ==
  /\ last.op = "save" /\ last.res.kind = "return"
  /\ prev.op = "save" /\ prev.kind = "return"
  /\ fs.key.exists

\* C15: on the fallback store a save or a delete of one account leaves the
\* entry of every other account as it was: a get of the other account
\* returns the same before and after the call.
C15_OtherAccountsUntouched ==
  [][\A b \in StoreAccounts :
       (last'.op \in {"save", "delete"} /\ b # last'.account)
         => Lookup(fs', b) = Lookup(fs, b)]_vars

\* a save of "a" completed on a store that holds an entry of "b"
C15_Witness ==
  /\ last.op = "save" /\ last.account = "a" /\ last.res.kind = "return"
  /\ Ran(last, "fallback")
  /\ Lookup(fs, "a").val \in Secrets
  /\ Lookup(fs, "b").val \in Secrets

\* C11: on the fallback store, when the value stored for an account is not
\* what _encrypt made under the present key (a byte changed, cut short, or
\* made under another key), get returns NotFound and raises nothing.
C11_DamagedBlobReadsAsNotFound ==
  (/\ last.op = "get"
   /\ \E i \in Entries(last.account) :
        LET b == fs.file.text[i][2]
        IN  b # Encrypt(fs.key.bytes, b.iv, b.enc.pt))
    => last.res = Returned(NotFound)

\* C19: when key.bin is deleted after secrets were saved, the next call
\* makes a new key; a get of an account saved under the old key returns
\* NotFound; and from then on a get directly after a completed save returns
\* the secret saved, for every account.
C19_NewKeyAfterKeyFileDeleted ==
  /\ (prev.op = "unlink key.bin" /\ last.op \in {"save", "get", "delete"})
       => (fs.key.exists /\ Cardinality(spent) > 1)
  /\ (/\ last.op = "get"
      /\ \E i \in Entries(last.account) : fs.file.text[i][2].tag.k # fs.key.bytes)
       => last.res = Returned(NotFound)
  /\ (GetAfter("save") /\ Cardinality(spent) > 1 /\ last.cf # "read")
       => last.res = Returned(prev.secret)

\* C14: a put is all or nothing: at every point of a fallback save or
\* delete, a crash in the middle of the write and a read by another process
\* during it included, credentials.json holds one complete mapping.
C14_MappingFileAlwaysComplete ==
  fs.file.exists => Whole(torn)

\* C20: two processes run fallback saves and deletes at the same time, with
\* nothing to coordinate them; once both are between calls, credentials.json
\* holds the full mapping written by the process that wrote last.
C20_LastWriterWins ==
  (torn.by # 0 /\ \A p \in Procs : procs[p].pc = "idle")
    => (Whole(torn) /\ fs.file.text = torn.written)

\* C21: when two processes run their first fallback operation at the same
\* time, the key is generated once: at most one value is ever written to
\* key.bin, and once both are between calls every entry of the mapping
\* decrypts under the key key.bin holds.
C21_KeyGeneratedOnce ==
  /\ Cardinality(spent) <= 1
  /\ (Whole(torn) /\ \A p \in Procs : procs[p].pc = "idle")
       => \A b \in StoredBlobs : Decrypt(fs.key.bytes, JsString(b)).kind = "return"

\* C22: in the fallback store a delete of an account that has no entry
\* returns without error and leaves the entries of the mapping as they
\* were, and delete is idempotent: a second delete of the same account
\* leaves the files as the first one left them.
C22_DeleteOfAbsentIsNoOp ==
  /\ \A a \in Accounts, k \in KeyDraws(fs) :
       LET once == DeleteFallback(fs, a, k, "none")
       IN  /\ once.res = Returned(Void)
           /\ Entries(a) = {} => once.fs.file.text = fs.file.text
           /\ DeleteFallback(once.fs, a, k, "none") = once
  /\ (last.op = "delete" /\ Ran(last, "fallback") /\ last.cf \in {"none", "chmod"})
       => (last.fb = Returned(Void) /\ Entries(last.account) = {})

\* the mapping holds the entry of "a", saved by the call before, and a
\* delete of an account that has no entry has returned
C22_Witness ==
  /\ last.op = "delete" /\ last.account = "__proto__" /\ last.res = Returned(Void)
  /\ prev.op = "save" /\ prev.account = "a" /\ prev.kind = "return"
  /\ Entries("a") # {} /\ Entries("__proto__") = {}

\* C23: in the Windows backend two distinct (service, account) pairs never
\* share a stored file, so a save or a delete for one pair never changes
\* what get returns for another pair.
C23_PairsDoNotShareAFile ==
  [][\A pr \in WinPairs :
       (last'.op \in {"save", "delete"} /\ pr # last'.account)
         => WinRead(keychain', pr) = WinRead(keychain, pr)]_vars

====
